---- MODULE Spec2Model ----
(***************************************************************************)
(* Sidecar codec of the Snapshot Filter Assistant.                         *)
(*                                                                         *)
(* generateXMPContent turns an EvaluationResult into the text of an XMP    *)
(* sidecar; parseXMP reads the text of a sidecar back into an              *)
(* EvaluationResult.  Text is a sequence of lexical chunks: a start tag    *)
(* (with its attributes), an end tag or a processing instruction is one    *)
(* chunk, every character of character data is one chunk.  A JavaScript    *)
(* string is the sequence of its characters.                               *)
(***************************************************************************)
EXTENDS Integers, Sequences, FiniteSets, Bags

(* ------------------------------ bounds --------------------------------- *)

\* totalScore inputs range over -ScoreSlack .. 100 + ScoreSlack
ScoreSlack == 10

\* feedback inputs: every string over FeedbackAlphabet up to this length
MaxFeedbackLen == 1

\* a third-party sidecar may have lost up to this many trailing chunks
MaxCut == 3

(* --------------------------- string literals --------------------------- *)

S_Select == <<"S", "e", "l", "e", "c", "t">>

S_Reject == <<"R", "e", "j", "e", "c", "t">>

S_Portfolio == <<"P", "o", "r", "t", "f", "o", "l", "i", "o">>

S_LensGradeAI == <<"L", "e", "n", "s", "G", "r", "a", "d", "e", "A", "I">>

S_ScoreColon == <<"S", "c", "o", "r", "e", ":", " ">>

S_Of100 == <<"/", "1", "0", "0", ".", " ">>

S_Zero == <<"0">>

DigitChars == <<"0", "1", "2", "3", "4", "5", "6", "7", "8", "9">>

IsDigit(c) == \E d \in 1..10 : DigitChars[d] = c

DigitValue(c) == (CHOOSE d \in 1..10 : DigitChars[d] = c) - 1

IsStartOf(p, s) == Len(p) <= Len(s) /\ SubSeq(s, 1, Len(p)) = p

Drop(s, n) == SubSeq(s, n + 1, Len(s))

(* --------------------------- JavaScript numbers ------------------------ *)

\* the not-a-number value; every other number of the model is an integer
\* of far smaller magnitude
NaN == -1000000

MathMin(a, b) == IF a = NaN \/ b = NaN THEN NaN ELSE IF a < b THEN a ELSE b

MathMax(a, b) == IF a = NaN \/ b = NaN THEN NaN ELSE IF a > b THEN a ELSE b

\* Math.floor(n / d) in the place of Math.round
MathFloor(n, d) == n \div d

\* Math.round(n / d) for integers n and d > 0: floor(n/d + 1/2)
MathRound(n, d) == (2 * n + d) \div (2 * d)

RECURSIVE NatToString(_)
NatToString(n) ==
    IF n < 10 THEN <<DigitChars[n + 1]>>
    ELSE NatToString(n \div 10) \o <<DigitChars[(n % 10) + 1]>>

\* `${n}` of a template literal
NumberToString(n) ==
    IF n = NaN THEN <<"N", "a", "N">>
    ELSE IF n < 0 THEN <<"-">> \o NatToString(-n)
    ELSE NatToString(n)

RECURSIVE LeadingDigits(_)
\* length of the longest prefix of s made of decimal digits
LeadingDigits(s) ==
    IF s = <<>> \/ ~IsDigit(s[1]) THEN 0 ELSE 1 + LeadingDigits(Tail(s))

RECURSIVE DigitsValue(_)
DigitsValue(s) ==
    IF s = <<>> THEN 0
    ELSE 10 * DigitsValue(SubSeq(s, 1, Len(s) - 1)) + DigitValue(s[Len(s)])

WhiteSpace == {" ", "\n"}

RECURSIVE TrimStart(_)
TrimStart(s) ==
    IF s # <<>> /\ s[1] \in WhiteSpace THEN TrimStart(Tail(s)) ELSE s

\* parseInt(s, 10)
parseInt(s) ==
    LET t == TrimStart(s)
        signed == t # <<>> /\ t[1] \in {"-", "+"}
        u == IF signed THEN Tail(t) ELSE t
        k == LeadingDigits(u)
        v == DigitsValue(SubSeq(u, 1, k))
    IN  IF k = 0 THEN NaN
        ELSE IF signed /\ t[1] = "-" THEN -v ELSE v

(* ------------------------------ markup --------------------------------- *)

ElementNames ==
    {"x:xmpmeta", "rdf:RDF", "rdf:Description", "xmp:Rating", "xmp:Label",
     "dc:description", "rdf:Alt", "rdf:li", "dc:subject", "rdf:Bag"}

\* the start tag of an element, attributes and namespace declarations included
Open(name) == "<" \o name \o ">"

Close(name) == "</" \o name \o ">"

OpenTags == {Open(n) : n \in ElementNames}

CloseTags == {Close(n) : n \in ElementNames}

PacketBegin == "<?xpacket begin?>"

PacketEnd == "<?xpacket end?>"

Instructions == {PacketBegin, PacketEnd}

\* the element the failed parse leaves in the document
ParserError == <<"<parsererror>", "</parsererror>">>

IsMarkup(t) ==
    t \in OpenTags \cup CloseTags \cup Instructions \cup {ParserError[1], ParserError[2]}

NameOf(t) == CHOOSE n \in ElementNames : t \in {Open(n), Close(n)}

NL == "\n"

(* ----------------------------- DOMParser ------------------------------- *)

\* one step of the XML well-formedness scan: stack holds the names of the
\* open elements, innermost first; at is the position of the first chunk at
\* which the text stops being well-formed, 0 so far
ScanStep(st, t, i) ==
    IF st.at # 0 THEN st
    ELSE IF t \in Instructions THEN st
    ELSE IF t \in OpenTags
    THEN IF st.stack = <<>> /\ st.rootClosed THEN [st EXCEPT !.at = i]
         ELSE [st EXCEPT !.stack = <<NameOf(t)>> \o @]
    ELSE IF t \in CloseTags
    THEN IF st.stack # <<>> /\ st.stack[1] = NameOf(t)
         THEN [st EXCEPT !.stack = Tail(@), !.rootClosed = (Len(st.stack) = 1)]
         ELSE [st EXCEPT !.at = i]
    ELSE IF t \in {"<", "&"} THEN [st EXCEPT !.at = i]
    ELSE IF st.stack = <<>> /\ t \notin WhiteSpace THEN [st EXCEPT !.at = i]
    ELSE st

RECURSIVE Scan(_, _, _, _)
\* the state after ScanStep has consumed the chunks lo..hi of text in order,
\* starting from state st (the loop of the scanner, split in halves); the
\* loop ends as soon as it has found its position, st.at
Scan(text, lo, hi, st) ==
    IF st.at # 0 \/ lo > hi THEN st
    ELSE IF lo = hi THEN ScanStep(st, text[lo], lo)
    ELSE Scan(text, (lo + hi) \div 2 + 1, hi, Scan(text, lo, (lo + hi) \div 2, st))

\* position of the first chunk at which text stops being well-formed XML
\* (Len(text) + 1 when the end comes too early), 0 when text is well-formed
ErrorPos(text) ==
    LET st == Scan(text, 1, Len(text),
                   [stack |-> <<>>, rootClosed |-> FALSE, at |-> 0])
    IN  IF st.at # 0 THEN st.at
        ELSE IF st.stack # <<>> \/ ~st.rootClosed THEN Len(text) + 1
        ELSE 0

WellFormed(text) == ErrorPos(text) = 0

\* what a failed parse leaves in the document: only the parsererror element
\* ("replace", the DOM Parsing standard and Gecko), or the parsererror element
\* and the nodes built before the error ("keep", Blink and WebKit)
Engines == {"replace", "keep"}

\* new DOMParser().parseFromString(text, "text/xml"): the document, as the
\* chunks of its nodes in document order; it never throws
parseFromString(text, engine) ==
    LET e == ErrorPos(text) IN
    IF e = 0 THEN text
    ELSE IF engine = "keep" THEN ParserError \o SubSeq(text, 1, e - 1)
    ELSE ParserError

\* index of the start tag of getElementsByTagName(name)[0], 0 when undefined
FirstElement(doc, name) ==
    LET tag == Open(name)
        starts == {i \in 1..Len(doc) : doc[i] = tag}
    IN  IF starts = {} THEN 0
        ELSE CHOOSE i \in starts : \A j \in starts : i <= j

\* one step of the search for the end tag of an element: depth counts the
\* elements opened inside it and not yet closed
EndStep(st, t, i) ==
    IF st.at # 0 THEN st
    ELSE IF t \in OpenTags THEN [st EXCEPT !.depth = @ + 1]
    ELSE IF t \in CloseTags
    THEN IF st.depth = 0 THEN [st EXCEPT !.at = i] ELSE [st EXCEPT !.depth = @ - 1]
    ELSE st

RECURSIVE FindEnd(_, _, _, _)
\* the state after EndStep has consumed the chunks lo..hi of doc in order,
\* starting from state st; the loop ends as soon as the end tag is found
FindEnd(doc, lo, hi, st) ==
    IF st.at # 0 \/ lo > hi THEN st
    ELSE IF lo = hi THEN EndStep(st, doc[lo], lo)
    ELSE FindEnd(doc, (lo + hi) \div 2 + 1, hi, FindEnd(doc, lo, (lo + hi) \div 2, st))

\* index of the end tag of the element whose start tag is at index i
\* (Len(doc) + 1 for an element the parse never closed)
ElementEnd(doc, i) ==
    LET st == FindEnd(doc, i + 1, Len(doc), [depth |-> 0, at |-> 0])
    IN  IF st.at # 0 THEN st.at ELSE Len(doc) + 1

\* the chunks inside the element whose start tag is at index i
Content(doc, i) == SubSeq(doc, i + 1, ElementEnd(doc, i) - 1)

\* node.textContent of the element whose start tag is at index i
textContent(doc, i) == SelectSeq(Content(doc, i), LAMBDA t : ~IsMarkup(t))

(* ------------------------------- codec --------------------------------- *)

\* the value parseXMP returns from its catch block
NULL == [null |-> TRUE]

\* the pattern with \d* in the place of \d+
StripScorePrefixAnyDigits(feedback) ==
    IF ~IsStartOf(S_ScoreColon, feedback) THEN feedback
    ELSE LET afterLabel == Drop(feedback, Len(S_ScoreColon))
             afterDigits == Drop(afterLabel, LeadingDigits(afterLabel))
         IN  IF IsStartOf(S_Of100, afterDigits)
             THEN Drop(afterDigits, Len(S_Of100))
             ELSE feedback

\* feedback.replace(/^Score: \d+\/100\. /, "")
StripScorePrefix(feedback) ==
    IF ~IsStartOf(S_ScoreColon, feedback) THEN feedback
    ELSE LET afterLabel == Drop(feedback, Len(S_ScoreColon))
             k == LeadingDigits(afterLabel)
             afterDigits == Drop(afterLabel, k)
         IN  IF k >= 1 /\ IsStartOf(S_Of100, afterDigits)
             THEN Drop(afterDigits, Len(S_Of100))
             ELSE feedback

\* rating * 20 without the Math.min
ScoreOfRatingUnclamped(rating) == IF rating = NaN THEN NaN ELSE rating * 20

\* Math.min(100, rating * 20)
ScoreOfRating(rating) == MathMin(100, IF rating = NaN THEN NaN ELSE rating * 20)

\* label !== "Reject" in the place of the allow-list
KeepLabelUnlessReject(label) == label # S_Reject /\ label # <<>>

\* label === "Select" || label === "Portfolio"
KeepLabel(label) == label = S_Select \/ label = S_Portfolio

\* the record parseXMP builds from the parsed document
Decode(xmlDoc) ==
    LET ratingNode == FirstElement(xmlDoc, "xmp:Rating")
        ratingText == IF ratingNode # 0 THEN textContent(xmlDoc, ratingNode) ELSE <<>>
        rating == IF ratingNode # 0
                  THEN parseInt(IF ratingText # <<>> THEN ratingText ELSE S_Zero)
                  ELSE 0
        totalScore == ScoreOfRating(rating)
        labelNode == FirstElement(xmlDoc, "xmp:Label")
        label == IF labelNode # 0 THEN textContent(xmlDoc, labelNode) ELSE <<>>
        isWorthKeeping == KeepLabel(label)
        descNode == FirstElement(xmlDoc, "dc:description")
        desc == IF descNode # 0 THEN Content(xmlDoc, descNode) ELSE <<>>
        li == FirstElement(desc, "rdf:li")
        feedback == IF li # 0 THEN textContent(desc, li) ELSE <<>>
    IN  [totalScore |-> totalScore,
         isWorthKeeping |-> isWorthKeeping,
         feedback |-> StripScorePrefix(feedback),
         compositionScore |-> totalScore,
         lightingScore |-> totalScore,
         technicalScore |-> totalScore,
         artisticScore |-> totalScore]

\* a decoder that gives up as soon as one of the three nodes is missing
parseXMPAllOrNothing(text, engine, readOk) ==
    IF ~readOk THEN NULL
    ELSE LET xmlDoc == parseFromString(text, engine) IN
         IF \E name \in {"xmp:Rating", "xmp:Label", "dc:description"} :
                FirstElement(xmlDoc, name) = 0
         THEN NULL
         ELSE Decode(xmlDoc)

\* parseXMP(fileHandle): text is the content of the file behind the handle,
\* readOk is whether getFile() and text() succeed; a failed read throws into
\* the catch block
parseXMP(text, engine, readOk) ==
    IF ~readOk THEN NULL ELSE Decode(parseFromString(text, engine))

\* Math.max(0, Math.min(5, Math.round(evaluation.totalScore / 20)))
RatingOf(evaluation) == MathMax(0, MathMin(5, MathRound(evaluation.totalScore, 20)))

\* the label derived from the score in the place of the verdict
LabelOfScore(evaluation) == IF evaluation.totalScore >= 50 THEN S_Select ELSE S_Reject

\* evaluation.isWorthKeeping ? "Select" : "Reject"
LabelOf(evaluation) == IF evaluation.isWorthKeeping THEN S_Select ELSE S_Reject

\* the description built from the quantised rating in the place of totalScore
DescriptionOfRating(evaluation) ==
    S_ScoreColon
    \o NumberToString(20 * MathMax(0, MathMin(5, MathRound(evaluation.totalScore, 20))))
    \o S_Of100 \o evaluation.feedback

\* Score: ${evaluation.totalScore}/100. ${evaluation.feedback}
DescriptionOf(evaluation) ==
    S_ScoreColon \o NumberToString(evaluation.totalScore) \o S_Of100 \o evaluation.feedback

\* the <rdf:li> items of the dc:subject bag
SubjectOf(evaluation) ==
    <<Open("rdf:li")>> \o S_LensGradeAI \o <<Close("rdf:li"), NL>>
    \o (IF evaluation.isWorthKeeping
        THEN <<Open("rdf:li")>> \o S_Select \o <<Close("rdf:li")>>
        ELSE <<Open("rdf:li")>> \o S_Reject \o <<Close("rdf:li")>>)
    \o <<NL>>

DocumentHead ==
    <<PacketBegin, NL, Open("x:xmpmeta"), NL, Open("rdf:RDF"), NL,
      Open("rdf:Description"), NL>>

DocumentTail ==
    <<Close("rdf:Description"), NL, Close("rdf:RDF"), NL, Close("x:xmpmeta"), NL,
      PacketEnd>>

generateXMPContent(evaluation) ==
    DocumentHead
    \o <<Open("xmp:Rating")>> \o NumberToString(RatingOf(evaluation))
    \o <<Close("xmp:Rating"), NL>>
    \o <<Open("xmp:Label")>> \o LabelOf(evaluation) \o <<Close("xmp:Label"), NL>>
    \o <<Open("dc:description"), NL, Open("rdf:Alt"), NL, Open("rdf:li")>>
    \o DescriptionOf(evaluation)
    \o <<Close("rdf:li"), NL, Close("rdf:Alt"), NL, Close("dc:description"), NL>>
    \o <<Open("dc:subject"), NL, Open("rdf:Bag"), NL>>
    \o SubjectOf(evaluation)
    \o <<Close("rdf:Bag"), NL, Close("dc:subject"), NL>>
    \o DocumentTail

(* ------------------------------- inputs -------------------------------- *)

S_NiceLight == <<"N", "i", "c", "e", " ", "l", "i", "g", "h", "t", ".">>

S_Approved == <<"A", "p", "p", "r", "o", "v", "e", "d">>

S_Score72 == S_ScoreColon \o <<"7", "2">> \o S_Of100

StringsUpTo(alphabet, n) == UNION {[1..k -> alphabet] : k \in 0..n}

FeedbackAlphabet == {"a", "<"}

\* feedback texts the scoring service may return
Feedbacks ==
    StringsUpTo(FeedbackAlphabet, MaxFeedbackLen)
    \cup {S_NiceLight, <<"a", " ", "&", " ", "b">>}

SubScores == {<<10, 55, 70, 100>>}

\* the records the scoring service may return (JSON.parse of its response)
Evaluations ==
    {[totalScore |-> t, isWorthKeeping |-> k, feedback |-> f,
      compositionScore |-> s[1], lightingScore |-> s[2],
      technicalScore |-> s[3], artisticScore |-> s[4]] :
        t \in (0 - ScoreSlack)..(100 + ScoreSlack), k \in BOOLEAN,
        f \in Feedbacks, s \in SubScores}

Absent == [present |-> FALSE, text |-> <<>>]

Present(texts) == {[present |-> TRUE, text |-> t] : t \in texts}

RatingTexts ==
    {<<"0">>, <<"3">>, <<"5">>, <<"6">>, <<"-", "1">>, <<>>, <<"a", "b", "c">>,
     <<" ", "3">>, <<"4", "x">>}

LabelTexts ==
    {S_Select, S_Portfolio, S_Reject, S_Approved, <<>>, <<" ">> \o S_Select}

DescriptionTexts ==
    {S_Score72 \o S_NiceLight,
     S_NiceLight,
     <<>>,
     S_ScoreColon \o S_Of100 \o <<"x">>,
     <<"x", " ">> \o S_Score72 \o <<"y">>,
     S_Score72 \o S_Score72 \o <<"z">>,
     S_ScoreColon \o <<"7", "2", "/", "1", "0", "0", ".", "x">>}

\* text that is no XMP packet at all: empty, bytes, stray or unclosed markup
ForeignTexts ==
    {<<>>, <<"a">>, <<"a", "b", "c">>, <<"<">>, <<"&", "a">>,
     <<Close("xmp:Label")>>,
     <<Open("x:xmpmeta"), Open("xmp:Label")>> \o S_Select,
     <<Open("x:xmpmeta"), Open("xmp:Rating"), "3", Close("xmp:Label")>>,
     <<Open("xmp:Rating"), "3", Close("xmp:Rating"), Open("xmp:Label")>>
        \o S_Select \o <<Close("xmp:Label")>>}

\* the fields as generateXMPContent writes them
UsualRating == [present |-> TRUE, text |-> <<"3">>]

UsualLabel == [present |-> TRUE, text |-> S_Select]

UsualDescription == [present |-> TRUE, text |-> S_Score72 \o S_NiceLight]

XmpInput(r, l, d, i, c) ==
    [kind |-> "xmp", rating |-> r, label |-> l, description |-> d, li |-> i,
     cut |-> c, bytes |-> <<>>]

\* what another program or a hand edit may have left in a sidecar: an XMP
\* packet with any of the three fields, its last `cut` chunks lost, or
\* foreign text; li says whether the description holds an rdf:li item
SidecarInputs ==
    {XmpInput(r, l, d, TRUE, c) :
        r \in Present(RatingTexts) \cup {Absent},
        l \in Present(LabelTexts) \cup {Absent},
        d \in {UsualDescription, Absent}, c \in 0..MaxCut}
    \cup
    {XmpInput(r, l, d, i, c) :
        r \in {UsualRating, Absent}, l \in {UsualLabel, Absent},
        d \in Present(DescriptionTexts), i \in BOOLEAN, c \in 0..MaxCut}
    \cup
    {[kind |-> "foreign", rating |-> Absent, label |-> Absent,
      description |-> Absent, li |-> TRUE, cut |-> 0, bytes |-> b] :
        b \in ForeignTexts}

\* the packet another program writes for the given fields
Packet(in) ==
    DocumentHead
    \o (IF in.rating.present
        THEN <<Open("xmp:Rating")>> \o in.rating.text \o <<Close("xmp:Rating"), NL>>
        ELSE <<>>)
    \o (IF in.label.present
        THEN <<Open("xmp:Label")>> \o in.label.text \o <<Close("xmp:Label"), NL>>
        ELSE <<>>)
    \o (IF in.description.present
        THEN IF in.li
             THEN <<Open("dc:description"), Open("rdf:Alt"), Open("rdf:li")>>
                  \o in.description.text
                  \o <<Close("rdf:li"), Close("rdf:Alt"), Close("dc:description"), NL>>
             ELSE <<Open("dc:description")>> \o in.description.text
                  \o <<Close("dc:description"), NL>>
        ELSE <<>>)
    \o DocumentTail

SidecarText(in) ==
    IF in.kind = "foreign" THEN in.bytes
    ELSE SubSeq(Packet(in), 1, Len(Packet(in)) - in.cut)

(* ---------------------------- state machine ---------------------------- *)

VARIABLES
    evaluation,   \* the EvaluationResult the application holds for the image
    input,        \* what another program is about to leave in the sidecar
    engine,       \* the browser's treatment of a failed XML parse
    text,         \* the content of the sidecar file
    writer,       \* who wrote text: "none", "app" or "other"
    result        \* what the last parseXMP of the sidecar returned

vars == <<evaluation, input, engine, text, writer, result>>

\* the state of the sidecar store, of the inspector panel and of the name and
\* group functions, which the codec leaves alone
VARIABLES
    dir,          \* the files of the image's directory and of its subfolder
    call,         \* the running call of a sidecar store operation
    file,         \* the ImageFile record the application holds for the image
    panel,        \* the state of the InspectorPanel component
    tasks,        \* the handleEvaluate and handleSaveXMP calls in flight
    request,      \* the argument of a name or group function
    reply         \* what the function returned

storeVars == <<dir, call>>

panelVars == <<file, panel, tasks>>

fnVars == <<request, reply>>

\* the value of a variable that a specification does not use
Unused == <<>>

StoreUnused == dir = Unused /\ call = Unused

PanelUnused == file = Unused /\ panel = Unused /\ tasks = Unused

FnUnused == request = Unused /\ reply = Unused

\* no parseXMP has returned since the sidecar was last written
Pending == [pending |-> TRUE]

DefaultEvaluation ==
    [totalScore |-> 0, isWorthKeeping |-> FALSE, feedback |-> <<>>,
     compositionScore |-> 0, lightingScore |-> 0, technicalScore |-> 0,
     artisticScore |-> 0]

DefaultInput ==
    [kind |-> "foreign", rating |-> Absent, label |-> Absent,
     description |-> Absent, li |-> TRUE, cut |-> 0, bytes |-> <<>>]

Init ==
    /\ \/ evaluation \in Evaluations /\ input = DefaultInput
       \/ evaluation = DefaultEvaluation /\ input \in SidecarInputs
    /\ engine \in Engines
    /\ text = <<>>
    /\ writer = "none"
    /\ result = Pending
    /\ StoreUnused /\ PanelUnused /\ FnUnused

\* saveXMPInDirectory(dirHandle, file.name, generateXMPContent(evaluation))
SaveSidecar ==
    /\ text' = generateXMPContent(evaluation)
    /\ writer' = "app"
    /\ result' = Pending
    /\ UNCHANGED <<evaluation, input, engine>>
    /\ UNCHANGED <<storeVars, panelVars, fnVars>>

\* another program, or the user, writes the sidecar
ForeignWrite ==
    /\ text' = SidecarText(input)
    /\ writer' = "other"
    /\ result' = Pending
    /\ UNCHANGED <<evaluation, input, engine>>
    /\ UNCHANGED <<storeVars, panelVars, fnVars>>

\* parseXMP(xmpHandle) when the folder is listed
LoadSidecar(readOk) ==
    /\ writer # "none"
    /\ result' = parseXMP(text, engine, readOk)
    /\ UNCHANGED <<evaluation, input, engine, text, writer>>
    /\ UNCHANGED <<storeVars, panelVars, fnVars>>

Next ==
    \/ SaveSidecar
    \/ ForeignWrite
    \/ \E readOk \in BOOLEAN : LoadSidecar(readOk)

Spec == Init /\ [][Next]_vars

\* the codec's variables in a specification that does not use them
CodecUnused ==
    /\ evaluation = DefaultEvaluation /\ input = DefaultInput
    /\ engine = "replace" /\ text = <<>> /\ writer = "none" /\ result = Pending

TypeOK ==
    /\ writer \in {"none", "app", "other"}
    /\ engine \in Engines
    /\ result = Pending \/ result = NULL \/ DOMAIN result = DOMAIN DefaultEvaluation

(* ------------------------------- claims -------------------------------- *)

\* the last parseXMP returned a record
Decoded == result # Pending /\ result # NULL

\* the text of the first element of the given name in the sidecar file
Written(name) == textContent(text, FirstElement(text, name))

\* the text of the first rdf:li item of the description in the sidecar file
WrittenDescription ==
    LET desc == Content(text, FirstElement(text, "dc:description"))
    IN  textContent(desc, FirstElement(desc, "rdf:li"))

\* the texts of the rdf:li items of the subject bag in the sidecar file
WrittenKeywords ==
    LET bag == Content(text, FirstElement(text, "dc:subject"))
    IN  [i \in {j \in 1..Len(bag) : bag[j] = Open("rdf:li")} |-> textContent(bag, i)]

Abs(n) == IF n < 0 THEN -n ELSE n

Clamp(n, lo, hi) == IF n < lo THEN lo ELSE IF n > hi THEN hi ELSE n

\* n / d rounded to the nearest integer, halves away from zero
RoundHalfAway(n, d) ==
    IF n >= 0 THEN (2 * n + d) \div (2 * d) ELSE 0 - ((2 * (0 - n) + d) \div (2 * d))

\* d is "Score: ", k digits, "/100. " and a rest
HasScorePrefix(d, k) ==
    /\ k >= 1
    /\ Len(d) >= Len(S_ScoreColon) + k + Len(S_Of100)
    /\ SubSeq(d, 1, Len(S_ScoreColon)) = S_ScoreColon
    /\ \A i \in (Len(S_ScoreColon) + 1)..(Len(S_ScoreColon) + k) : IsDigit(d[i])
    /\ SubSeq(d, Len(S_ScoreColon) + k + 1, Len(S_ScoreColon) + k + Len(S_Of100)) = S_Of100

ScoreDigits(d, k) == SubSeq(d, Len(S_ScoreColon) + 1, Len(S_ScoreColon) + k)

AfterScorePrefix(d, k) == Drop(d, Len(S_ScoreColon) + k + Len(S_Of100))

\* C1: decoding the sidecar the application wrote for an EvaluationResult
\* with totalScore in 0..100 gives a record with the same isWorthKeeping and
\* a totalScore at most 20 away, whatever the feedback text is.
C1_RoundTrip ==
    (writer = "app" /\ Decoded /\ evaluation.totalScore \in 0..100)
    => /\ result.isWorthKeeping = evaluation.isWorthKeeping
       /\ Abs(result.totalScore - evaluation.totalScore) <= 20

\* C2: for every integer totalScore, in or out of 0..100, the rating written
\* is clamp(round(totalScore / 20), 0, 5) with halves rounded away from zero:
\* it is one of 0..5, and 0 gives 0, 10 gives 1, 49 gives 2, 50 gives 3 and
\* 100 gives 5.
C2_Rating ==
    writer = "app" =>
        /\ Written("xmp:Rating")
             = NumberToString(Clamp(RoundHalfAway(evaluation.totalScore, 20), 0, 5))
        /\ Written("xmp:Rating") \in {<<DigitChars[r + 1]>> : r \in 0..5}
        /\ evaluation.totalScore = 0 => Written("xmp:Rating") = <<"0">>
        /\ evaluation.totalScore = 10 => Written("xmp:Rating") = <<"1">>
        /\ evaluation.totalScore = 49 => Written("xmp:Rating") = <<"2">>
        /\ evaluation.totalScore = 50 => Written("xmp:Rating") = <<"3">>
        /\ evaluation.totalScore = 100 => Written("xmp:Rating") = <<"5">>

\* a score above 100 (110 / 20 = 5.5) has been written with rating 5
C2_Witness ==
    /\ writer = "app"
    /\ evaluation.totalScore = 110
    /\ Written("xmp:Rating") = <<"5">>

\* C3: parseXMP of text that is not well-formed XML returns null.
C3_MalformedIsNull ==
    (result # Pending /\ ~WellFormed(text)) => result = NULL

\* C4: in a decoded document isWorthKeeping is true exactly when the label
\* is "Select" or "Portfolio"; every other label, the empty one and the
\* absent one give false, whatever the rating is.
C4_LabelAllowList ==
    (writer = "other" /\ input.kind = "xmp" /\ WellFormed(text) /\ Decoded)
    => (result.isWorthKeeping
        <=> (input.label.present /\ input.label.text \in {S_Select, S_Portfolio}))

\* the legacy keep label, beside a rating of 0, has been decoded as keep
C4_Witness ==
    /\ writer = "other" /\ WellFormed(text) /\ Decoded
    /\ input.label = [present |-> TRUE, text |-> S_Portfolio]
    /\ input.rating = [present |-> TRUE, text |-> <<"0">>]
    /\ result.isWorthKeeping

\* s is an integer numeral: an optional minus sign and decimal digits
IsNumeral(s) ==
    LET digits == IF s # <<>> /\ s[1] = "-" THEN Tail(s) ELSE s
    IN  digits # <<>> /\ \A i \in 1..Len(digits) : IsDigit(digits[i])

NumeralValue(s) ==
    IF s[1] = "-" THEN 0 - DigitsValue(Tail(s)) ELSE DigitsValue(s)

\* C5: a document whose rating node holds the integer r decodes to
\* totalScore = min(100, r * 20); a rating of 6 decodes to 100 and the
\* decode does not fail.
C5_DecodeClamp ==
    (writer = "other" /\ input.kind = "xmp" /\ WellFormed(text) /\ result # Pending
        /\ input.rating.present /\ IsNumeral(input.rating.text))
    => \/ result = NULL
       \/ LET r == NumeralValue(input.rating.text)
          IN  result.totalScore = (IF r * 20 > 100 THEN 100 ELSE r * 20)

\* a rating of 6 has been decoded to 100
C5_Witness ==
    /\ writer = "other" /\ WellFormed(text) /\ Decoded
    /\ input.rating = [present |-> TRUE, text |-> <<"6">>]
    /\ result.totalScore = 100

\* C6: when the sidecar is a well-formed packet and the file can be read,
\* parseXMP returns a record; an absent rating gives totalScore 0, an absent
\* label gives isWorthKeeping false, an absent description gives feedback "",
\* each independently of the other fields, and a label or description that
\* is present is still decoded.
C6_MissingFieldDefaults ==
    [][(writer = "other" /\ input.kind = "xmp" /\ WellFormed(text) /\ LoadSidecar(TRUE))
        => /\ result' # NULL
           /\ ~input.rating.present => result'.totalScore = 0
           /\ ~input.label.present => result'.isWorthKeeping = FALSE
           /\ ~input.description.present => result'.feedback = <<>>
           /\ (input.label.present /\ input.label.text = S_Select)
                => result'.isWorthKeeping
           /\ (input.description.present /\ input.li
                    /\ input.description.text = S_NiceLight)
                => result'.feedback = S_NiceLight
           /\ (input.rating.present /\ input.rating.text = <<"3">>)
                => result'.totalScore = 60]_vars

\* a packet with a label only has been decoded: the label is kept, the
\* rating and the description take their defaults
C6_Witness ==
    /\ writer = "other" /\ WellFormed(text) /\ Decoded
    /\ ~input.rating.present /\ ~input.description.present
    /\ input.label = [present |-> TRUE, text |-> S_Select]
    /\ result.totalScore = 0 /\ result.isWorthKeeping /\ result.feedback = <<>>

\* C7: every record parseXMP returns has totalScore and the four sub-scores
\* in 0..100.
C7_ScoreDomain ==
    Decoded =>
        /\ result.totalScore \in 0..100
        /\ result.compositionScore \in 0..100
        /\ result.lightingScore \in 0..100
        /\ result.technicalScore \in 0..100
        /\ result.artisticScore \in 0..100

\* C8: the feedback decoded from a description is the description without
\* its leading "Score: <digits>/100. " when it starts with one, and the whole
\* description otherwise, also when the pattern occurs later in the text.
C8_FeedbackPrefix ==
    (writer = "other" /\ input.kind = "xmp" /\ WellFormed(text) /\ Decoded
        /\ input.description.present /\ input.li)
    => LET d == input.description.text IN
       /\ \A k \in 1..Len(d) : HasScorePrefix(d, k) => result.feedback = AfterScorePrefix(d, k)
       /\ (\A k \in 1..Len(d) : ~HasScorePrefix(d, k)) => result.feedback = d
       /\ d = S_Score72 \o S_NiceLight => result.feedback = S_NiceLight

\* "Score: 72/100. Nice light." has been decoded to "Nice light."
C8_Witness ==
    /\ writer = "other" /\ WellFormed(text) /\ Decoded
    /\ input.description = [present |-> TRUE, text |-> S_Score72 \o S_NiceLight]
    /\ input.li
    /\ result.feedback = S_NiceLight

\* C9: the label written is "Select" when isWorthKeeping is true and
\* "Reject" when it is false, whatever totalScore is, and the subject bag
\* holds two keywords: the product tag and that same label.
C9_LabelAndKeywords ==
    writer = "app" =>
        LET label == IF evaluation.isWorthKeeping THEN S_Select ELSE S_Reject
            keywords == WrittenKeywords
        IN  /\ Written("xmp:Label") = label
            /\ Cardinality(DOMAIN keywords) = 2
            /\ {keywords[i] : i \in DOMAIN keywords} = {S_LensGradeAI, label}

\* a top score with a discard verdict has been written as "Reject"
C9_Witness ==
    /\ writer = "app"
    /\ evaluation.totalScore = 100 /\ ~evaluation.isWorthKeeping
    /\ Written("xmp:Label") = S_Reject

\* C10: the description written is "Score: ", the decimal numeral of the
\* input's totalScore, "/100. " and the input's feedback; for a totalScore in
\* 0..100 it is "Score: <digits>/100. <feedback>" with digits that read as
\* that totalScore.
C10_Description ==
    writer = "app" =>
        LET d == WrittenDescription
            t == evaluation.totalScore
        IN  /\ \E n \in 1..4 :
                /\ Len(d) = Len(S_ScoreColon) + n + Len(S_Of100) + Len(evaluation.feedback)
                /\ SubSeq(d, 1, Len(S_ScoreColon)) = S_ScoreColon
                /\ SubSeq(d, Len(S_ScoreColon) + 1, Len(S_ScoreColon) + n)
                     = (IF t < 0 THEN <<"-">> ELSE <<>>) \o NatToString(Abs(t))
                /\ SubSeq(d, Len(S_ScoreColon) + n + 1, Len(S_ScoreColon) + n + Len(S_Of100))
                     = S_Of100
                /\ Drop(d, Len(S_ScoreColon) + n + Len(S_Of100)) = evaluation.feedback
            /\ t \in 0..100 =>
                \E k \in 1..3 :
                    /\ HasScorePrefix(d, k)
                    /\ DigitsValue(ScoreDigits(d, k)) = t
                    /\ AfterScorePrefix(d, k) = evaluation.feedback

\* the description of a score of 72 with feedback "Nice light." has been written
C10_Witness ==
    /\ writer = "app"
    /\ evaluation.totalScore = 72 /\ evaluation.feedback = S_NiceLight
    /\ WrittenDescription = S_Score72 \o S_NiceLight

(* ---------------------- sidecar names and image groups ----------------- *)

\* image file names: every non-empty string over NameAlphabet up to this length
MaxNameLen == 5

\* the remote scorer's list of results has at most this many entries
MaxResults == 2

S_DotXmp == <<".", "x", "m", "p">>

\* the pattern with the first dot in the place of the last: /\..+$/
ExtensionStartFirstDot(name) ==
    LET starts == {p \in 1..(Len(name) - 1) : name[p] = "."}
    IN  IF starts = {} THEN 0 ELSE CHOOSE p \in starts : \A q \in starts : p <= q

\* where /\.[^/.]+$/ matches in name: the leftmost dot that is followed, up
\* to the end of the name, by one or more characters other than "/" and ".";
\* 0 when the pattern does not match
ExtensionStart(name) ==
    LET starts == {p \in 1..(Len(name) - 1) :
                      /\ name[p] = "."
                      /\ \A q \in (p + 1)..Len(name) : name[q] \notin {"/", "."}}
    IN  IF starts = {} THEN 0 ELSE CHOOSE p \in starts : \A q \in starts : p <= q

\* name.replace(/\.[^/.]+$/, "")
ReplaceExtension(name) ==
    IF ExtensionStart(name) = 0 THEN name
    ELSE SubSeq(name, 1, ExtensionStart(name) - 1)

\* saveXMPInDirectory: imageName.replace(/\.[^/.]+$/, "") + ".xmp"
xmpName(imageName) == ReplaceExtension(imageName) \o S_DotXmp

\* handleSaveXMP, download fallback: a.download = file.name.replace(...) + ".xmp"
downloadName(name) == ReplaceExtension(name) \o S_DotXmp

NameAlphabet == {"a", "b", "."}

\* the names a directory listing can give an image file
ImageNames == StringsUpTo(NameAlphabet, MaxNameLen) \ {<<>>}

\* the images of a burst, by file name
GroupNames == {"a.jpg", "b.jpg", "c.jpg"}

\* what the remote scorer may answer to a group request: no answer because
\* the API key is missing or the request failed, an answer without text, text
\* that is not JSON, or JSON whose results member is a list of
\* {fileName, evaluation} pairs or is no list
GroupResponses ==
    {[kind |-> k, results |-> <<>>] :
        k \in {"nokey", "error", "empty", "unparsable", "nolist"}}
    \cup
    {[kind |-> "list", results |-> r] :
        r \in UNION {[1..n -> [fileName : GroupNames, evaluation : 1..2]] :
                        n \in 0..MaxResults}}

\* evaluateImageGroup(images) when the remote scorer answers with response
evaluateImageGroup(images, response) ==
    IF response.kind \in {"nokey", "error", "empty", "unparsable"}
    THEN [resolved |-> FALSE, resultMap |-> <<>>]
    ELSE LET results == IF response.kind = "list" THEN response.results ELSE <<>>
             keys == {results[i].fileName : i \in 1..Len(results)}
             last(k) == CHOOSE i \in 1..Len(results) :
                            /\ results[i].fileName = k
                            /\ \A j \in (i + 1)..Len(results) : results[j].fileName # k
         IN  [resolved |-> TRUE,
              resultMap |-> [k \in keys |-> results[last(k)].evaluation]]

NameRequests == {[kind |-> "name", name |-> n] : n \in ImageNames}

GroupRequests ==
    {[kind |-> "group", images |-> i, response |-> r] :
        i \in (SUBSET GroupNames) \ {{}}, r \in GroupResponses}

NoReply == [saved |-> <<>>, download |-> <<>>, group |-> <<>>]

FnInit ==
    /\ request \in NameRequests \cup GroupRequests
    /\ reply = NoReply
    /\ CodecUnused /\ StoreUnused /\ PanelUnused

\* saveXMPInDirectory names the sidecar of the image
NameSidecar ==
    /\ request.kind = "name"
    /\ reply' = [reply EXCEPT !.saved = <<xmpName(request.name)>>]
    /\ UNCHANGED <<request, vars, storeVars, panelVars>>

\* handleSaveXMP names the download when there is no directory handle
NameDownload ==
    /\ request.kind = "name"
    /\ reply' = [reply EXCEPT !.download = <<downloadName(request.name)>>]
    /\ UNCHANGED <<request, vars, storeVars, panelVars>>

EvaluateGroup ==
    /\ request.kind = "group"
    /\ reply' = [reply EXCEPT
                    !.group = <<evaluateImageGroup(request.images, request.response)>>]
    /\ UNCHANGED <<request, vars, storeVars, panelVars>>

FnNext == NameSidecar \/ NameDownload \/ EvaluateGroup

FnSpec == FnInit /\ [][FnNext]_fnVars

\* the name without its part from the last dot on, when that dot is
\* followed by something; the whole name otherwise
WithoutLastExtension(name) ==
    LET dots == {i \in 1..Len(name) : name[i] = "."}
        lastDot == CHOOSE i \in dots : \A j \in dots : j <= i
    IN  IF dots = {} THEN name
        ELSE IF lastDot = Len(name) THEN name
        ELSE SubSeq(name, 1, lastDot - 1)

\* C16: when evaluateImageGroup resolves, the keys of the mapping it returns
\* are exactly the names of the input images.
C16_OneEntryPerName ==
    (request.kind = "group" /\ reply.group # <<>> /\ reply.group[1].resolved)
    => DOMAIN reply.group[1].resultMap = request.images

\* C18: the sidecar is saved under the image name without its last
\* extension, followed by ".xmp": a.b gives a.xmp, a.b.a gives a.b.xmp, ab
\* gives ab.xmp; the download fallback uses the same name.
C18_SidecarName ==
    request.kind = "name" =>
        /\ reply.saved # <<>> =>
            /\ reply.saved[1] = WithoutLastExtension(request.name) \o S_DotXmp
            /\ request.name = <<"a", ".", "b">> => reply.saved[1] = <<"a">> \o S_DotXmp
            /\ request.name = <<"a", ".", "b", ".", "a">>
                => reply.saved[1] = <<"a", ".", "b">> \o S_DotXmp
            /\ request.name = <<"a", "b">> => reply.saved[1] = <<"a", "b">> \o S_DotXmp
        /\ (reply.saved # <<>> /\ reply.download # <<>>) => reply.download = reply.saved

\* a name with two dots has been given its sidecar name and download name
C18_Witness ==
    /\ request.kind = "name" /\ request.name = <<"a", ".", "b", ".", "a">>
    /\ reply.saved = <<<<"a", ".", "b">> \o S_DotXmp>>
    /\ reply.download = reply.saved

(* ---------------------------- the sidecar store ------------------------ *)

\* the write permission of the sidecar's handle: whether the handle has the
\* permission methods at all, the state the browser holds, whether
\* queryPermission throws, and what requestPermission does when it is called
Permissions ==
    {[hasQuery |-> FALSE, state |-> "granted", queryThrows |-> FALSE, request |-> "denied"]}
    \cup {[hasQuery |-> TRUE, state |-> "granted", queryThrows |-> t, request |-> "denied"] :
            t \in BOOLEAN}
    \cup {[hasQuery |-> TRUE, state |-> s, queryThrows |-> TRUE, request |-> "denied"] :
            s \in {"prompt", "denied"}}
    \cup {[hasQuery |-> TRUE, state |-> s, queryThrows |-> FALSE, request |-> r] :
            s \in {"prompt", "denied"}, r \in {"granted", "denied", "throws"}}

verifyPermission(handle) ==
    IF ~handle.hasQuery THEN TRUE
    ELSE IF handle.queryThrows THEN FALSE
    ELSE IF handle.state = "granted" THEN TRUE
    ELSE IF handle.request = "throws" THEN FALSE
    ELSE handle.request = "granted"

\* the permission state once verifyPermission has run: a granted request
\* changes it, nothing else does
Granted(handle) ==
    \/ handle.state = "granted"
    \/ handle.hasQuery /\ ~handle.queryThrows /\ handle.request = "granted"

\* no store operation is running
Idle(xmpHandle) ==
    [op |-> "none", pc |-> "done", outcome |-> "none", xmpHandle |-> xmpHandle,
     passed |-> FALSE, perm |-> CHOOSE h \in Permissions : ~h.hasQuery,
     hasPerm |-> "unknown", wrote |-> FALSE, moving |-> "image",
     imageStep |-> "pending", sidecarStep |-> "pending",
     before |-> [image |-> "present", sidecar |-> "absent", subfolder |-> FALSE,
                 subImage |-> "absent", subSidecar |-> "absent"]]

StoreInit ==
    /\ \E sidecar \in {"absent", "old"} :
        /\ dir = [image |-> "present", sidecar |-> sidecar, subfolder |-> FALSE,
                  subImage |-> "absent", subSidecar |-> "absent"]
        /\ call = Idle(sidecar = "old")
    /\ CodecUnused /\ PanelUnused /\ FnUnused

\* a call of op starts on the image of the directory
Begin(op, pc, perm) ==
    [Idle(call.xmpHandle) EXCEPT
        !.op = op, !.pc = pc, !.outcome = "running", !.perm = perm,
        !.passed = (op # "save" /\ call.xmpHandle), !.before = dir]

\* an await of the operation rejects and nothing catches it
Throw(c) == [c EXCEPT !.pc = "done", !.outcome = "rejected"]

Resolve(c) == [c EXCEPT !.pc = "done", !.outcome = "resolved"]

\* the sidecar step's failure is thrown on to the caller
SidecarFailureRethrown(c) == Throw([c EXCEPT !.sidecarStep = "failed"])

\* catch (e) { console.warn(...) } around the sidecar step
SidecarFailure(c) == Resolve([c EXCEPT !.sidecarStep = "failed"])

\* the entry stays in the directory
RemoveEntryKept(d, which) == d

\* dirHandle.removeEntry(name)
RemoveEntry(d, which) == [d EXCEPT ![which] = "absent"]

StartSave ==
    /\ call.pc = "done" /\ dir.image = "present"
    /\ \E perm \in Permissions : call' = Begin("save", "getFileHandle", perm)
    /\ UNCHANGED <<dir, vars, panelVars, fnVars>>

\* dirHandle.getFileHandle(xmpName, { create: true })
GetFileHandle ==
    /\ call.op = "save" /\ call.pc = "getFileHandle"
    /\ \/ /\ dir' = [dir EXCEPT !.sidecar = IF @ = "absent" THEN "empty" ELSE @]
          /\ call' = [call EXCEPT !.pc = "verifyPermission"]
       \/ /\ call' = Throw(call)
          /\ UNCHANGED dir
    /\ UNCHANGED <<vars, panelVars, fnVars>>

\* const hasPerm = await verifyPermission(xmpHandle, true): hasPerm is not read
VerifyPermission ==
    /\ call.op = "save" /\ call.pc = "verifyPermission"
    /\ call' = [call EXCEPT
                  !.hasPerm = IF verifyPermission(call.perm) THEN "true" ELSE "false",
                  !.pc = "createWritable"]
    /\ UNCHANGED <<dir, vars, panelVars, fnVars>>

\* xmpHandle.createWritable(): rejects without the write permission
CreateWritable ==
    /\ call.op = "save" /\ call.pc = "createWritable"
    /\ \/ Granted(call.perm) /\ call' = [call EXCEPT !.pc = "write"]
       \/ call' = Throw(call)
    /\ UNCHANGED <<dir, vars, panelVars, fnVars>>

\* writable.write(content): into the stream's swap file
WritableWrite ==
    /\ call.op = "save" /\ call.pc = "write"
    /\ \/ call' = [call EXCEPT !.pc = "close", !.wrote = TRUE]
       \/ call' = Throw(call)
    /\ UNCHANGED <<dir, vars, panelVars, fnVars>>

\* writable.close() puts the content in the file; return xmpHandle
WritableClose ==
    /\ call.op = "save" /\ call.pc = "close"
    /\ \/ /\ dir' = [dir EXCEPT !.sidecar = "new"]
          /\ call' = Resolve([call EXCEPT !.xmpHandle = TRUE])
       \/ /\ call' = Throw(call)
          /\ UNCHANGED dir
    /\ UNCHANGED <<vars, panelVars, fnVars>>

StartDelete ==
    /\ call.pc = "done" /\ dir.image = "present"
    /\ call' = Begin("delete", "removeImage", call.perm)
    /\ UNCHANGED <<dir, vars, panelVars, fnVars>>

\* await dirHandle.removeEntry(fileName); if (xmpHandle) ...
RemoveImage ==
    /\ call.op = "delete" /\ call.pc = "removeImage"
    /\ \/ /\ dir' = RemoveEntry(dir, "image")
          /\ call' = IF call.passed
                     THEN [call EXCEPT !.imageStep = "ok", !.pc = "removeSidecar",
                                       !.sidecarStep = "running"]
                     ELSE Resolve([call EXCEPT !.imageStep = "ok"])
       \/ /\ call' = Throw([call EXCEPT !.imageStep = "failed"])
          /\ UNCHANGED dir
    /\ UNCHANGED <<vars, panelVars, fnVars>>

\* try { await dirHandle.removeEntry(xmpHandle.name) } catch (e) { warn }
RemoveSidecar ==
    /\ call.op = "delete" /\ call.pc = "removeSidecar"
    /\ \/ /\ dir.sidecar # "absent"
          /\ dir' = RemoveEntry(dir, "sidecar")
          /\ call' = Resolve([call EXCEPT !.sidecarStep = "ok"])
       \/ /\ call' = SidecarFailure(call)
          /\ UNCHANGED dir
    /\ UNCHANGED <<vars, panelVars, fnVars>>

StartMove ==
    /\ call.pc = "done" /\ dir.image = "present"
    /\ call' = Begin("move", "getDirectoryHandle", call.perm)
    /\ UNCHANGED <<dir, vars, panelVars, fnVars>>

\* dirHandle.getDirectoryHandle(subfolderName, { create: true })
GetDirectoryHandle ==
    /\ call.op = "move" /\ call.pc = "getDirectoryHandle"
    /\ \/ /\ dir' = [dir EXCEPT !.subfolder = TRUE]
          /\ call' = [call EXCEPT !.pc = "create"]
       \/ /\ call' = Throw(call)
          /\ UNCHANGED dir
    /\ UNCHANGED <<vars, panelVars, fnVars>>

\* the subfolder's entry for the image or for the sidecar
SubEntry(which) == IF which = "image" THEN "subImage" ELSE "subSidecar"

\* move(handle) throws: the image's failure rejects the operation, the
\* sidecar's is caught
MoveFailure(c) ==
    IF c.moving = "image" THEN Throw([c EXCEPT !.imageStep = "failed"])
    ELSE SidecarFailure(c)

\* handle.getFile(); subDir.getFileHandle(handle.name, { create: true })
MoveCreate ==
    /\ call.op = "move" /\ call.pc = "create"
    /\ \/ /\ dir[call.moving] # "absent"
          /\ dir' = [dir EXCEPT ![SubEntry(call.moving)] =
                                    IF @ = "absent" THEN "created" ELSE @]
          /\ call' = [call EXCEPT !.pc = "copy"]
       \/ /\ call' = MoveFailure(call)
          /\ UNCHANGED dir
    /\ UNCHANGED <<vars, panelVars, fnVars>>

\* newHandle.createWritable(); writable.write(file); writable.close()
MoveCopy ==
    /\ call.op = "move" /\ call.pc = "copy"
    /\ \/ /\ dir' = [dir EXCEPT ![SubEntry(call.moving)] = dir[call.moving]]
          /\ call' = [call EXCEPT !.pc = "remove"]
       \/ /\ call' = MoveFailure(call)
          /\ UNCHANGED dir
    /\ UNCHANGED <<vars, panelVars, fnVars>>

\* dirHandle.removeEntry(handle.name), then the sidecar's move or the end
MoveRemove ==
    /\ call.op = "move" /\ call.pc = "remove"
    /\ \/ /\ dir[call.moving] # "absent"
          /\ dir' = RemoveEntry(dir, call.moving)
          /\ call' = IF call.moving = "sidecar"
                     THEN Resolve([call EXCEPT !.sidecarStep = "ok"])
                     ELSE IF call.passed
                     THEN [call EXCEPT !.imageStep = "ok", !.moving = "sidecar",
                                       !.pc = "create", !.sidecarStep = "running"]
                     ELSE Resolve([call EXCEPT !.imageStep = "ok"])
       \/ /\ call' = MoveFailure(call)
          /\ UNCHANGED dir
    /\ UNCHANGED <<vars, panelVars, fnVars>>

StoreNext ==
    \/ StartSave \/ GetFileHandle \/ VerifyPermission \/ CreateWritable
    \/ WritableWrite \/ WritableClose
    \/ StartDelete \/ RemoveImage \/ RemoveSidecar
    \/ StartMove \/ GetDirectoryHandle \/ MoveCreate \/ MoveCopy \/ MoveRemove

StoreSpec == StoreInit /\ [][StoreNext]_storeVars

\* C11: when verifyPermission has returned false, saveXMPInDirectory writes
\* nothing, the directory is as it was before the call, and the call does
\* not resolve.
C11_DenialAbortsSave ==
    (call.op = "save" /\ call.hasPerm = "false")
    => (dir = call.before /\ ~call.wrote /\ call.outcome # "resolved")

\* C14: in deleteFile and moveFileToSubfolder a failed sidecar step is
\* warned about and the operation resolves, given that the image step
\* succeeded; a failed image step rejects the operation and the sidecar step
\* is never attempted.
C14_SidecarFailureTolerated ==
    call.op \in {"delete", "move"} =>
        /\ call.sidecarStep = "failed"
            => (call.imageStep = "ok" /\ call.outcome = "resolved")
        /\ (call.pc = "done" /\ call.imageStep = "ok") => call.outcome = "resolved"
        /\ call.outcome = "resolved" => call.imageStep = "ok"
        /\ call.imageStep = "failed" => call.outcome = "rejected"
        /\ call.outcome = "rejected"
            => /\ call.sidecarStep = "pending"
               /\ dir.sidecar = call.before.sidecar
               /\ dir.subSidecar = call.before.subSidecar

\* a delete whose sidecar step failed has resolved
C14_Witness ==
    /\ call.op = "delete" /\ call.passed /\ call.sidecarStep = "failed"
    /\ call.outcome = "resolved" /\ dir.image = "absent"

\* C15 as stated: after a resolved deleteFile or moveFileToSubfolder for an
\* image that had a sidecar, the directory holds neither (after a move the
\* subfolder holds both), and in no state is the image gone while the sidecar
\* remains.
C15_SidecarNeverOutlivesImage ==
    /\ (call.op \in {"delete", "move"} /\ call.outcome = "resolved"
            /\ call.before.sidecar # "absent")
        => /\ dir.image = "absent" /\ dir.sidecar = "absent"
           /\ call.op = "move"
                => (dir.subImage = "present" /\ dir.subSidecar = call.before.sidecar)
    /\ ~(dir.image = "absent" /\ dir.sidecar # "absent")

\* C15: after a resolved deleteFile or moveFileToSubfolder that was given the
\* sidecar's handle and whose sidecar step did not fail, the directory holds
\* neither the image nor the sidecar (after a move the subfolder holds both);
\* the sidecar goes after the image, so the image is gone while the sidecar
\* remains exactly as long as the sidecar step has not succeeded.
C15_SidecarFollowsImage ==
    call.op \in {"delete", "move"} =>
        /\ (call.outcome = "resolved" /\ call.passed /\ call.sidecarStep = "ok")
            => /\ dir.image = "absent" /\ dir.sidecar = "absent"
               /\ call.op = "move"
                    => (dir.subImage = "present"
                        /\ dir.subSidecar = call.before.sidecar)
        /\ (dir.image = "absent" /\ dir.sidecar # "absent") => call.sidecarStep # "ok"
        /\ (dir.sidecar = "absent" /\ call.before.sidecar # "absent")
            => dir.image = "absent"

\* a move of an image and its sidecar has resolved with both in the subfolder
C15_Witness ==
    /\ call.op = "move" /\ call.outcome = "resolved" /\ call.sidecarStep = "ok"
    /\ dir.image = "absent" /\ dir.sidecar = "absent"
    /\ dir.subImage = "present" /\ dir.subSidecar \in {"old", "new"}

(* --------------------------- the inspector panel ----------------------- *)

\* at most this many handleEvaluate and handleSaveXMP calls run at once
MaxTasks == 2

\* what the remote scorer may do with a request: no request because the API
\* key is missing, a request that fails or times out, an answer without
\* text, text that is not JSON, JSON that is no EvaluationResult, a record
ScorerResponses == {"nokey", "error", "empty", "unparsable", "wrongshape", "record"}

\* evaluateImage: what it throws or returns for the scorer's response
evaluateImage(response) ==
    CASE response = "nokey" ->
            [threw |-> TRUE, message |-> "API Key is missing.", value |-> "none"]
      [] response = "error" ->
            [threw |-> TRUE, message |-> "Request failed", value |-> "none"]
      [] response = "empty" ->
            [threw |-> TRUE, message |-> "No response text", value |-> "none"]
      [] response = "unparsable" ->
            [threw |-> TRUE, message |-> "Unexpected token", value |-> "none"]
      [] response = "wrongshape" ->
            [threw |-> FALSE, message |-> "", value |-> "malformed"]
      [] response = "record" ->
            [threw |-> FALSE, message |-> "", value |-> "record"]

\* the parent puts updatedFile in the place of the image's record
onUpdateFile(updatedFile) == updatedFile

\* useEffect(..., [file]) of the panel that shows the image
Effect(p, f) ==
    [p EXCEPT !.loading = (f.status = "processing"),
              !.error = f.errorMessage,
              !.justSaved = FALSE]

\* the panel after the handler's state updates p and the new record f: the
\* effect runs when the panel shows the image
Rendered(p, f) == IF p.selected THEN Effect(p, f) ELSE p

\* the buttons Analyze with AI and Re-run Analysis can be clicked
CanEvaluate ==
    panel.selected /\ ~(panel.loading \/ file.status = "processing")

\* the button Save Sidecar or Download Sidecar can be clicked
CanSave == CanEvaluate /\ file.evaluation # "none" /\ ~panel.saving

\* no call has settled in the last step
NoCall == [kind |-> "none", response |-> "none", scoring |-> "none",
           write |-> "none", before |-> <<>>]

Launch(t) == [inFlight |-> tasks.inFlight (+) SetToBag({t}), settled |-> NoCall]

Settle(t, done) == [inFlight |-> tasks.inFlight (-) SetToBag({t}), settled |-> done]

Quiet == [tasks EXCEPT !.settled = NoCall]

PanelInit ==
    /\ \E dirHandle \in BOOLEAN, loaded \in BOOLEAN :
        /\ loaded => dirHandle
        /\ file = IF loaded
                  THEN [status |-> "done", evaluation |-> "record",
                        xmpHandle |-> "held", errorMessage |-> ""]
                  ELSE [status |-> "pending", evaluation |-> "none",
                        xmpHandle |-> "none", errorMessage |-> ""]
        /\ panel = [selected |-> TRUE, dirHandle |-> dirHandle, loading |-> FALSE,
                    error |-> "", saving |-> FALSE, justSaved |-> FALSE]
    /\ tasks = [inFlight |-> EmptyBag, settled |-> NoCall]
    /\ CodecUnused /\ StoreUnused /\ FnUnused

\* handleEvaluate up to its first await
ClickEvaluate ==
    /\ CanEvaluate
    /\ BagCardinality(tasks.inFlight) < MaxTasks
    /\ file' = onUpdateFile([file EXCEPT !.status = "processing"])
    /\ panel' = Rendered([panel EXCEPT !.loading = TRUE, !.error = ""], file')
    /\ tasks' = Launch([kind |-> "evaluate", pc |-> "scoring", file |-> file,
                        response |-> "none", result |-> "none"])
    /\ UNCHANGED <<vars, storeVars, fnVars>>

\* evaluateImage settles: the catch and finally blocks, or the automatic save
\* with a directory handle, or the update without one
ScoringSettles ==
    \E t \in BagToSet(tasks.inFlight), response \in ScorerResponses :
        LET r == evaluateImage(response)
        IN  /\ t.kind = "evaluate" /\ t.pc = "scoring"
            /\ IF r.threw
               THEN /\ file' = onUpdateFile([t.file EXCEPT !.status = "error",
                                                          !.errorMessage = r.message])
                    /\ panel' = Rendered([panel EXCEPT !.error = r.message,
                                                      !.loading = FALSE], file')
                    /\ tasks' = Settle(t, [kind |-> "evaluate", response |-> response,
                                           scoring |-> "failed", write |-> "none",
                                           before |-> file])
               ELSE IF panel.dirHandle
               THEN /\ tasks' = [inFlight |->
                                    (tasks.inFlight (-) SetToBag({t}))
                                    (+) SetToBag({[t EXCEPT !.pc = "saving",
                                                            !.response = response,
                                                            !.result = r.value]}),
                                 settled |-> NoCall]
                    /\ UNCHANGED <<file, panel>>
               ELSE /\ file' = onUpdateFile([t.file EXCEPT !.status = "done",
                                                          !.evaluation = r.value])
                    /\ panel' = Rendered([panel EXCEPT !.loading = FALSE], file')
                    /\ tasks' = Settle(t, [kind |-> "evaluate", response |-> response,
                                           scoring |-> "ok", write |-> "none",
                                           before |-> file])
            /\ UNCHANGED <<vars, storeVars, fnVars>>

\* the saveXMPInDirectory of handleEvaluate settles
AutoSaveSettles ==
    \E t \in BagToSet(tasks.inFlight), ok \in BOOLEAN :
        /\ t.kind = "evaluate" /\ t.pc = "saving"
        /\ file' = onUpdateFile([t.file EXCEPT
                        !.status = "done", !.evaluation = t.result,
                        !.xmpHandle = IF ok THEN "held" ELSE @])
        /\ panel' = Rendered([panel EXCEPT !.justSaved = (ok \/ @),
                                          !.loading = FALSE], file')
        /\ tasks' = Settle(t, [kind |-> "evaluate", response |-> t.response,
                               scoring |-> "ok",
                               write |-> IF ok THEN "ok" ELSE "failed",
                               before |-> file])
        /\ UNCHANGED <<vars, storeVars, fnVars>>

\* handleSaveXMP with a directory handle, up to its await
ClickSave ==
    /\ CanSave /\ panel.dirHandle
    /\ BagCardinality(tasks.inFlight) < MaxTasks
    /\ panel' = [panel EXCEPT !.saving = TRUE]
    /\ tasks' = Launch([kind |-> "save", pc |-> "saving", file |-> file,
                        response |-> "none", result |-> file.evaluation])
    /\ UNCHANGED <<file, vars, storeVars, fnVars>>

\* handleSaveXMP without a directory handle: the download
ClickDownload ==
    /\ CanSave /\ ~panel.dirHandle
    /\ panel' = [panel EXCEPT !.justSaved = TRUE, !.saving = FALSE]
    /\ tasks' = Quiet
    /\ UNCHANGED <<file, vars, storeVars, fnVars>>

\* the saveXMPInDirectory of handleSaveXMP settles
ManualSaveSettles ==
    \E t \in BagToSet(tasks.inFlight), ok \in BOOLEAN :
        /\ t.kind = "save"
        /\ IF ok
           THEN /\ file' = onUpdateFile([t.file EXCEPT !.xmpHandle = "held"])
                /\ panel' = Rendered([panel EXCEPT !.justSaved = TRUE,
                                                  !.saving = FALSE], file')
           ELSE /\ panel' = [panel EXCEPT !.error = "Failed to save XMP",
                                         !.saving = FALSE]
                /\ UNCHANGED file
        /\ tasks' = Settle(t, [kind |-> "save", response |-> "none",
                               scoring |-> "none",
                               write |-> IF ok THEN "ok" ELSE "failed",
                               before |-> file])
        /\ UNCHANGED <<vars, storeVars, fnVars>>

\* setTimeout(() => setJustSaved(false), 3000)
SavedExpires ==
    /\ panel.justSaved
    /\ panel' = [panel EXCEPT !.justSaved = FALSE]
    /\ tasks' = Quiet
    /\ UNCHANGED <<file, vars, storeVars, fnVars>>

\* the user selects another image, one that is idle and has no error
SelectOther ==
    /\ panel.selected
    /\ panel' = [panel EXCEPT !.selected = FALSE, !.loading = FALSE,
                              !.error = "", !.justSaved = FALSE]
    /\ tasks' = Quiet
    /\ UNCHANGED <<file, vars, storeVars, fnVars>>

\* the user comes back to the image
SelectBack ==
    /\ ~panel.selected
    /\ panel' = Effect([panel EXCEPT !.selected = TRUE], file)
    /\ tasks' = Quiet
    /\ UNCHANGED <<file, vars, storeVars, fnVars>>

\* loadPreview of the effect fails
PreviewFails ==
    /\ panel.selected /\ panel.error # "Could not load image preview."
    /\ panel' = [panel EXCEPT !.error = "Could not load image preview."]
    /\ tasks' = Quiet
    /\ UNCHANGED <<file, vars, storeVars, fnVars>>

PanelNext ==
    \/ ClickEvaluate \/ ScoringSettles \/ AutoSaveSettles
    \/ ClickSave \/ ClickDownload \/ ManualSaveSettles
    \/ SavedExpires \/ SelectOther \/ SelectBack \/ PreviewFails

PanelSpec == PanelInit /\ [][PanelNext]_panelVars

\* the number of calls in flight that wait for pc
InFlight(pc) ==
    LET waiting == {t \in BagToSet(tasks.inFlight) : t.pc = pc}
    IN  BagCardinality([t \in waiting |-> CopiesIn(t, tasks.inFlight)])

\* C12: when the scoring call fails (no key, request error, empty or
\* malformed response), no sidecar write follows it and, when handleEvaluate
\* has settled, the image has status 'error' and an error message, and its
\* evaluation and xmpHandle are what they were before.
C12_GatewayFailure ==
    /\ \A t \in BagToSet(tasks.inFlight) :
        (t.kind = "evaluate" /\ t.pc = "saving") => t.response = "record"
    /\ (tasks.settled.kind = "evaluate" /\ tasks.settled.response # "record")
        => /\ file.status = "error" /\ file.errorMessage # ""
           /\ tasks.settled.write = "none"
           /\ file.evaluation = tasks.settled.before.evaluation
           /\ file.xmpHandle = tasks.settled.before.xmpHandle

\* C13: at most one evaluateImage and at most one saveXMPInDirectory are in
\* flight for the image.
C13_OneCallInFlight == InFlight("scoring") <= 1 /\ InFlight("saving") <= 1

\* C17: when a sidecar write has failed, in handleSaveXMP or in
\* handleEvaluate, the image is in a failure state or has an error message,
\* and 'Saved!' is not shown.
C17_WriteFailureShown ==
    tasks.settled.write = "failed"
    => /\ \/ file.status = "error"
          \/ file.errorMessage # ""
          \/ panel.selected /\ panel.error # ""
       /\ ~(panel.selected /\ panel.justSaved)

\* C19: a record with status 'done' has no errorMessage, and the panel
\* shows no error when the evaluation that just settled succeeded.
C19_DoneHasNoError ==
    /\ file.status = "done" => file.errorMessage = ""
    /\ (tasks.settled.kind = "evaluate" /\ tasks.settled.response = "record"
            /\ panel.selected)
        => panel.error = ""

====
